---- MODULE Spec2Model ----
(***************************************************************************)
(* go2proto: Go declarations -> Protocol Buffer IR.                        *)
(*                                                                         *)
(* The model follows pkg/parser (extractConsts, extractPackage),           *)
(* pkg/ct (Unique, Coalesce, FoldMap, Concat) and pkg/transformer          *)
(* (ProtoMonoid, Transform and the declaration transformers).              *)
(* Strings are Go strings; they are taken apart character by character     *)
(* with Len/SubSeq, as the Go code does.  Documentation comments           *)
(* (the Comments fields) are carried through unchanged by the code and     *)
(* are left out of the records.  A nil slice and an empty slice are both   *)
(* the empty sequence, a nil map and an empty map the empty function.      *)
(***************************************************************************)
EXTENDS Integers, Sequences, FiniteSets, TLC

VARIABLES
    fa, fb, fc,      \* three Proto fragments handed to ProtoMonoid.Append
    mres,            \* label -> Proto: the compositions computed so far
    sIn,             \* <<>> or <<s>>: the GoStruct given to transformStruct
    sPriv,           \* opts.IncludePrivate of the Transformer
    sLookup,         \* the enumLookup handed to transformStruct
    sOut,            \* <<>> or <<p>>: the Proto transformStruct returned
    cPhase,          \* parser/enum pipeline: "scan", "collected", "done"
    cBlocks,         \* number of const blocks extractConsts was called on
    cSpecs,          \* number of value specs scanned so far
    currentType,     \* extractConsts: currentType
    iotaValue,       \* extractConsts: iotaValue
    groups,          \* extractPackage: constGroups (type name -> values)
    cOrder,          \* the type names of constGroups in the order they were added
    cLast,           \* the spec scanned by the last step, with the state before it
    cAliases,        \* GoPackage.Aliases of the package being extracted
    cConsts,         \* GoPackage.Consts, filled from constGroups
    cEnums,          \* <<>> or <<p>>: the Proto transformEnums returned
    tOpts,           \* TransformOptions of the Transformer
    tPkgs,           \* the packages Transform has folded so far
    tAcc,            \* FoldMap's result variable inside Transform
    gType,           \* the GoType handed to the resolver
    gEnums,          \* the enumLookup handed to the resolver
    gParams,         \* the typeParamsLookup handed to the resolver
    gRes,            \* <<>> or <<r>>: what transformType returned
    gField,          \* <<>> or <<r>>: what transformField returned
    mIn,             \* the GoMethod handed to transformMethod
    mOut,            \* <<>> or <<r>>: what transformMethod returned
    rPkgs,           \* the package list given to every call of Transform
    rOpts,           \* Transformer.opts (TypeMappings apart)
    rMappings,       \* opts.TypeMappings: the shared defaultTypeMappings table
    knownTypes,      \* Transformer.knownTypes
    rOut             \* the Protos returned by the calls of Transform so far

vars == <<fa, fb, fc, mres, sIn, sPriv, sLookup, sOut, cPhase, cBlocks, cSpecs,
          currentType, iotaValue, groups, cOrder, cLast, cAliases, cConsts, cEnums,
          tOpts, tPkgs, tAcc, gType, gEnums, gParams, gRes, gField, mIn, mOut,
          rPkgs, rOpts, rMappings, knownTypes, rOut>>

monoidVars == <<fa, fb, fc, mres>>
structVars == <<sIn, sPriv, sLookup, sOut>>
constVars == <<cPhase, cBlocks, cSpecs, currentType, iotaValue, groups, cOrder, cLast,
               cAliases, cConsts, cEnums>>
transVars == <<tOpts, tPkgs, tAcc>>
typeVars == <<gType, gEnums, gParams, gRes, gField>>
methodVars == <<mIn, mOut>>
runVars == <<rPkgs, rOpts, rMappings, knownTypes, rOut>>

(***************************************************************************)
(* Bounds of the model.                                                    *)
(***************************************************************************)
MaxImports == 2      \* length of a fragment's import list
MaxDecls == 1        \* length of a fragment's enum/message/service list
MaxFields == 3       \* fields of a struct
MaxBlocks == 2       \* const blocks of a package
MaxSpecs == 3        \* value specs of a package, over all its const blocks
MaxPkgs == 2         \* packages given to Transform

(***************************************************************************)
(* Characters and strings (package strings, unicode).                      *)
(***************************************************************************)
UpperAlpha == "ABCDEFGHIJKLMNOPQRSTUVWXYZ"
LowerAlpha == "abcdefghijklmnopqrstuvwxyz"
Digits == "0123456789"

CharAt(s, i) == SubSeq(s, i, i)

CharsOf(s) == {CharAt(s, i) : i \in 1..Len(s)}

UpperChars == CharsOf(UpperAlpha)
LowerChars == CharsOf(LowerAlpha)
DigitChars == CharsOf(Digits)

\* unicode.IsUpper, unicode.IsLower on the ASCII letters the model uses
IsUpper(ch) == ch \in UpperChars

IsLower(ch) == ch \in LowerChars

IsDigit(ch) == ch \in DigitChars

LowerOf == [ch \in UpperChars |->
              CharAt(LowerAlpha, CHOOSE i \in 1..Len(UpperAlpha) : CharAt(UpperAlpha, i) = ch)]

UpperOf == [ch \in LowerChars |->
              CharAt(UpperAlpha, CHOOSE i \in 1..Len(LowerAlpha) : CharAt(LowerAlpha, i) = ch)]

\* unicode.ToLower, unicode.ToUpper
ToLowerCh(ch) == IF IsUpper(ch) THEN LowerOf[ch] ELSE ch

ToUpperCh(ch) == IF IsLower(ch) THEN UpperOf[ch] ELSE ch

RECURSIVE ToUpper(_)
ToUpper(s) == IF s = "" THEN "" ELSE ToUpperCh(CharAt(s, 1)) \o ToUpper(Tail(s))

HasPrefix(s, p) == Len(s) >= Len(p) /\ SubSeq(s, 1, Len(p)) = p

TrimPrefix(s, p) == IF HasPrefix(s, p) THEN SubSeq(s, Len(p) + 1, Len(s)) ELSE s

\* strings.Index: the first position (1-based) where p occurs in s, 0 if none
Index(s, p) ==
    LET hits == {i \in 1..(Len(s) - Len(p) + 1) : SubSeq(s, i, i + Len(p) - 1) = p}
    IN  IF hits = {} THEN 0 ELSE CHOOSE i \in hits : \A j \in hits : i <= j

\* strings.Split(s, sep) for a one-character separator
RECURSIVE Split(_, _)
Split(s, sep) ==
    LET i == Index(s, sep)
    IN  IF i = 0 THEN <<s>>
        ELSE <<SubSeq(s, 1, i - 1)>> \o Split(SubSeq(s, i + 1, Len(s)), sep)

\* strings.Join
RECURSIVE Join(_, _)
Join(parts, sep) ==
    IF parts = <<>> THEN ""
    ELSE IF Len(parts) = 1 THEN parts[1]
    ELSE parts[1] \o sep \o Join(Tail(parts), sep)

\* strings.ReplaceAll for one-character old and new
RECURSIVE ReplaceAll(_, _, _)
ReplaceAll(s, old, new) ==
    IF s = "" THEN ""
    ELSE (IF CharAt(s, 1) = old THEN new ELSE CharAt(s, 1)) \o ReplaceAll(Tail(s), old, new)

\* strings.Trim(s, cutset) for a one-character cutset
RECURSIVE TrimLeft(_, _)
TrimLeft(s, ch) == IF s # "" /\ CharAt(s, 1) = ch THEN TrimLeft(Tail(s), ch) ELSE s

RECURSIVE TrimRight(_, _)
TrimRight(s, ch) ==
    IF s # "" /\ CharAt(s, Len(s)) = ch THEN TrimRight(SubSeq(s, 1, Len(s) - 1), ch) ELSE s

Trim(s, ch) == TrimRight(TrimLeft(s, ch), ch)

(***************************************************************************)
(* pkg/ct                                                                  *)
(***************************************************************************)
Range(f) == {f[i] : i \in DOMAIN f}

SeqsUpTo(S, n) == UNION {[1..k -> S] : k \in 0..n}

\* ct.Filter
Filter(xs, pred(_)) == SelectSeq(xs, pred)

\* Unique: the loop keeps an element the first time it is seen
RECURSIVE UniqueFrom(_, _)
UniqueFrom(xs, seen) ==
    IF xs = <<>> THEN <<>>
    ELSE IF Head(xs) \in seen THEN UniqueFrom(Tail(xs), seen)
    ELSE <<Head(xs)>> \o UniqueFrom(Tail(xs), seen \cup {Head(xs)})

Unique(xs) == UniqueFrom(xs, {})

\* Coalesce(values...): the first value that is not the zero value ""
RECURSIVE Coalesce(_)
Coalesce(values) ==
    IF values = <<>> THEN ""
    ELSE IF Head(values) # "" THEN Head(values)
    ELSE Coalesce(Tail(values))

(***************************************************************************)
(* pkg/transformer: the Proto IR and its monoid                            *)
(***************************************************************************)
NoOptions == [k \in {} |-> ""]

Proto(syntax, package, options, imports, enums, messages, services) ==
    [Syntax |-> syntax, Package |-> package, Options |-> options,
     Imports |-> imports, Enums |-> enums, Messages |-> messages,
     Services |-> services]

\* ProtoMonoid.Empty
ProtoEmpty == Proto("proto3", "", NoOptions, <<>>, <<>>, <<>>, <<>>)

\* the two loops that fill opts: a's entries, then b's entries over them
MergeOptions(a, b) ==
    [k \in (DOMAIN a) \cup (DOMAIN b) |-> IF k \in DOMAIN b THEN b[k] ELSE a[k]]

\* A slip in the merge: only b's own import list is de-duplicated
ProtoAppendDedupRight(a, b) ==
    Proto(Coalesce(<<a.Syntax, b.Syntax>>), Coalesce(<<a.Package, b.Package>>),
          MergeOptions(a.Options, b.Options),
          a.Imports \o Unique(b.Imports),
          a.Enums \o b.Enums, a.Messages \o b.Messages, a.Services \o b.Services)

\* A slip in Append: the lists of b are put before the lists of a
ProtoAppendPrepend(a, b) ==
    Proto(Coalesce(<<a.Syntax, b.Syntax>>), Coalesce(<<a.Package, b.Package>>),
          MergeOptions(a.Options, b.Options), Unique(b.Imports \o a.Imports),
          b.Enums \o a.Enums, b.Messages \o a.Messages, b.Services \o a.Services)

\* ProtoMonoid.Append
ProtoAppend(a, b) ==
    Proto(Coalesce(<<a.Syntax, b.Syntax>>), Coalesce(<<a.Package, b.Package>>),
          MergeOptions(a.Options, b.Options),
          Unique(a.Imports \o b.Imports),
          a.Enums \o b.Enums, a.Messages \o b.Messages, a.Services \o b.Services)

\* ct.Concat(ProtoMonoid, xs)
RECURSIVE ConcatFrom(_, _)
ConcatFrom(result, xs) ==
    IF xs = <<>> THEN result ELSE ConcatFrom(ProtoAppend(result, Head(xs)), Tail(xs))

Concat(xs) == ConcatFrom(ProtoEmpty, xs)


(***************************************************************************)
(* pkg/parser: the type graph                                              *)
(***************************************************************************)
BasicType(name) == [kind |-> "Basic", Name |-> name]
PointerType(elem) == [kind |-> "Pointer", Elem |-> elem]
SliceType(elem) == [kind |-> "Slice", Elem |-> elem]
ArrayType(elem) == [kind |-> "Array", Elem |-> elem]
MapType(key, value) == [kind |-> "Map", Key |-> key, Value |-> value]
NamedType(package, name) == [kind |-> "Named", Package |-> package, Name |-> name]
InterfaceType == [kind |-> "Interface"]
StructType == [kind |-> "Struct"]
ChanType(elem) == [kind |-> "Chan", Elem |-> elem]
FuncType == [kind |-> "Func"]

\* NamedType.String
NamedString(t) == IF t.Package # "" THEN t.Package \o "." \o t.Name ELSE t.Name

\* ast.IsExported: the name begins with an upper-case letter
IsExported(name) == name # "" /\ IsUpper(CharAt(name, 1))

GoField(name, type, tag, embedded) ==
    [Name |-> name, Type |-> type, Tag |-> tag, Embedded |-> embedded,
     Exported |-> IF embedded THEN TRUE ELSE IsExported(name)]

GoStruct(name, fields, tags, typeParams) ==
    [Name |-> name, Fields |-> fields, Tags |-> tags, TypeParams |-> typeParams]

GoParam(name, type) == [Name |-> name, Type |-> type]

GoMethod(name, params, results) == [Name |-> name, Params |-> params, Results |-> results]

GoInterface(name, methods, tags) == [Name |-> name, Methods |-> methods, Tags |-> tags]

GoAlias(name, tags) == [Name |-> name, Tags |-> tags]

GoConstValue(name, value) == [Name |-> name, Value |-> value]

GoConstGroup(typeName, values) == [TypeName |-> typeName, Values |-> values]

GoPackage(path, structs, interfaces, aliases, consts) ==
    [Path |-> path, Structs |-> structs, Interfaces |-> interfaces,
     Aliases |-> aliases, Consts |-> consts]

\* m[key] of a Go map[string]string: the zero value "" for a missing key
TagValue(tags, key) == IF key \in DOMAIN tags THEN tags[key] ELSE ""

NoTags == [k \in {} |-> ""]

(***************************************************************************)
(* pkg/transformer: names                                                  *)
(***************************************************************************)
RECURSIVE SnakeFrom(_, _, _)
SnakeFrom(s, i, prevLower) ==
    IF i > Len(s) THEN ""
    ELSE LET r == CharAt(s, i)
             nextIsLower == i + 1 <= Len(s) /\ IsLower(CharAt(s, i + 1))
         IN  IF IsUpper(r)
             THEN (IF i > 1 /\ (prevLower \/ (nextIsLower /\ ~prevLower)) THEN "_" ELSE "")
                  \o ToLowerCh(r) \o SnakeFrom(s, i + 1, FALSE)
             ELSE r \o SnakeFrom(s, i + 1, TRUE)

toSnakeCase(s) == SnakeFrom(s, 1, FALSE)

toEnumValueName(typeName, valueName) ==
    LET upperTypeName == ToUpper(toSnakeCase(typeName))
        upperValueName == ToUpper(toSnakeCase(valueName))
    IN  IF HasPrefix(upperValueName, upperTypeName) THEN upperValueName
        ELSE upperTypeName \o "_" \o upperValueName

CodeHosts == {"github.com", "gitlab.com", "bitbucket.org"}

toProtoPackage(goPath) ==
    LET parts == Split(goPath, "/")
        hits == {i \in 1..Len(parts) : parts[i] \in CodeHosts}
        rest == IF hits = {} THEN parts
                ELSE SubSeq(parts, (CHOOSE i \in hits : \A j \in hits : i <= j) + 1, Len(parts))
    IN  ReplaceAll(Join(rest, "."), "-", "_")

isBasicProtoType(t) ==
    t \in {"string", "bool", "bytes", "int32", "int64", "uint32", "uint64",
           "sint32", "sint64", "fixed32", "fixed64", "sfixed32", "sfixed64",
           "float", "double"}

(***************************************************************************)
(* pkg/transformer: the type mapping resolver                              *)
(***************************************************************************)
TypeMapping(proto, import) == [Proto |-> proto, Import |-> import]

AnyProto == "google.protobuf.Any"
AnyImport == "google/protobuf/any.proto"
TimestampProto == "google.protobuf.Timestamp"
TimestampImport == "google/protobuf/timestamp.proto"
DurationProto == "google.protobuf.Duration"
DurationImport == "google/protobuf/duration.proto"
EmptyProto == "google.protobuf.Empty"
EmptyImport == "google/protobuf/empty.proto"

defaultTypeMappings ==
    [k \in {"string", "bool", "int", "int8", "int16", "int32", "int64",
            "uint", "uint8", "uint16", "uint32", "uint64", "float32", "float64",
            "byte", "rune", "[]byte", "time.Time", "time.Duration", "error", "any"} |->
      CASE k \in {"string", "error"} -> TypeMapping("string", "")
        [] k = "bool" -> TypeMapping("bool", "")
        [] k \in {"int", "int64"} -> TypeMapping("int64", "")
        [] k \in {"int8", "int16", "int32", "rune"} -> TypeMapping("int32", "")
        [] k \in {"uint", "uint64"} -> TypeMapping("uint64", "")
        [] k \in {"uint8", "uint16", "uint32", "byte"} -> TypeMapping("uint32", "")
        [] k = "float32" -> TypeMapping("float", "")
        [] k = "float64" -> TypeMapping("double", "")
        [] k = "[]byte" -> TypeMapping("bytes", "")
        [] k = "time.Time" -> TypeMapping(TimestampProto, TimestampImport)
        [] k = "time.Duration" -> TypeMapping(DurationProto, DurationImport)
        [] k = "any" -> TypeMapping(AnyProto, AnyImport)]

Resolved(protoType, imports, repeated, isMap, mapKey, mapValue) ==
    [protoType |-> protoType, imports |-> imports, repeated |-> repeated,
     isMap |-> isMap, mapKey |-> mapKey, mapValue |-> mapValue]

Mapped(mapping) ==
    Resolved(mapping.Proto, IF mapping.Import # "" THEN <<mapping.Import>> ELSE <<>>,
             FALSE, FALSE, "", "")

\* A slip in the default case: the placeholder comes without its import
PlaceholderWithoutImport == Resolved(AnyProto, <<>>, FALSE, FALSE, "", "")

\* case parser.InterfaceType and default: google.protobuf.Any and its import
Placeholder == Resolved(AnyProto, <<AnyImport>>, FALSE, FALSE, "", "")

\* A slip in the slice case: the byte special case is lost
SliceNoBytes(elem, inner) ==
    Resolved(inner.protoType, inner.imports, TRUE, FALSE, "", "")

\* case parser.SliceType: inner is what the element resolves to
Slice(elem, inner) ==
    IF elem.kind = "Basic" /\ elem.Name = "byte"
    THEN Resolved("bytes", <<>>, FALSE, FALSE, "", "")
    ELSE Resolved(inner.protoType, inner.imports, TRUE, FALSE, "", "")

\* enumLookup and typeParamsLookup are map[string]bool holding only true:
\* the set of their keys (nil: the empty set)
RECURSIVE transformType(_, _, _)
transformType(goType, enumLookup, typeParamsLookup) ==
    CASE goType.kind = "Basic" ->
           IF goType.Name \in DOMAIN defaultTypeMappings
           THEN Mapped(defaultTypeMappings[goType.Name])
           ELSE Resolved(goType.Name, <<>>, FALSE, FALSE, "", "")
      [] goType.kind = "Pointer" ->
           transformType(goType.Elem, enumLookup, typeParamsLookup)
      [] goType.kind = "Slice" ->
           Slice(goType.Elem, transformType(goType.Elem, enumLookup, typeParamsLookup))
      [] goType.kind = "Array" ->
           LET inner == transformType(goType.Elem, enumLookup, typeParamsLookup)
           IN  Resolved(inner.protoType, inner.imports, TRUE, FALSE, "", "")
      [] goType.kind = "Map" ->
           LET key == transformType(goType.Key, enumLookup, typeParamsLookup)
               value == transformType(goType.Value, enumLookup, typeParamsLookup)
           IN  Resolved("map<" \o key.protoType \o ", " \o value.protoType \o ">",
                        key.imports \o value.imports, FALSE, TRUE,
                        key.protoType, value.protoType)
      [] goType.kind = "Named" ->
           IF goType.Name \in enumLookup
           THEN Resolved(goType.Name, <<>>, FALSE, FALSE, "", "")
           ELSE IF NamedString(goType) \in DOMAIN defaultTypeMappings
           THEN Mapped(defaultTypeMappings[NamedString(goType)])
           ELSE IF goType.Package = "time" /\ goType.Name = "Time"
           THEN Resolved(TimestampProto, <<TimestampImport>>, FALSE, FALSE, "", "")
           ELSE IF goType.Package = "time" /\ goType.Name = "Duration"
           THEN Resolved(DurationProto, <<DurationImport>>, FALSE, FALSE, "", "")
           ELSE IF goType.Name \in typeParamsLookup
           THEN Resolved(AnyProto, <<AnyImport>>, FALSE, FALSE, "", "")
           ELSE Resolved(goType.Name, <<>>, FALSE, FALSE, "", "")
      [] OTHER -> Placeholder


(***************************************************************************)
(* pkg/transformer: struct -> message                                      *)
(***************************************************************************)
ProtoField(name, type, number, repeated, optional, mapKey, mapValue) ==
    [Name |-> name, Type |-> type, Number |-> number, Repeated |-> repeated,
     Optional |-> optional, MapKey |-> mapKey, MapValue |-> mapValue]

ProtoMessage(name, fields) == [Name |-> name, Fields |-> fields]

Quote == "\""
\* the delimiter of a Go raw string literal (the back quote), which a TLA+
\* string cannot hold: the apostrophe stands for it in every tag of the model
BackQuote == "'"
ProtobufKey == "protobuf:" \o Quote

\* the regexp protobuf:"([^"]+)" with FindStringSubmatch: the leftmost place where the
\* key is followed by one or more non-quote characters and a quote; <<>> when
\* there is no match, else <<the captured group>>
ProtobufSubmatch(tag) ==
    LET n == Len(ProtobufKey)
        after(i) == SubSeq(tag, i + n, Len(tag))
        hits == {i \in 1..(Len(tag) - n + 1) :
                    /\ SubSeq(tag, i, i + n - 1) = ProtobufKey
                    /\ Index(after(i), Quote) >= 2}
    IN  IF hits = {} THEN <<>>
        ELSE LET i == CHOOSE h \in hits : \A j \in hits : h <= j
             IN  <<SubSeq(after(i), 1, Index(after(i), Quote) - 1)>>

DigitValues == [ch \in DigitChars |-> (CHOOSE i \in 1..Len(Digits) : CharAt(Digits, i) = ch) - 1]

DigitValue(ch) == DigitValues[ch]

RECURSIVE ScanDigits(_, _, _)
ScanDigits(s, acc, any) ==
    IF s # "" /\ IsDigit(CharAt(s, 1))
    THEN ScanDigits(Tail(s), acc * 10 + DigitValue(CharAt(s, 1)), TRUE)
    ELSE [ok |-> any, value |-> acc]

\* fmt.Sscanf(s, "%d", &n): leading spaces, an optional sign, then digits; what
\* follows the digits is left unread.  n keeps its old value 0 when no digit is found
Sscanf(s) ==
    LET t == TrimLeft(s, " ")
        signed == t # "" /\ CharAt(t, 1) \in {"+", "-"}
        d == ScanDigits(IF signed THEN Tail(t) ELSE t, 0, FALSE)
    IN  IF ~d.ok THEN 0
        ELSE IF signed /\ CharAt(t, 1) = "-" THEN 0 - d.value ELSE d.value

\* the last name= option wins; "" when there is none
RECURSIVE TagName(_, _)
TagName(parts, name) ==
    IF parts = <<>> THEN name
    ELSE TagName(Tail(parts),
                 IF HasPrefix(Head(parts), "name=") THEN TrimPrefix(Head(parts), "name=")
                 ELSE name)

WireType(wiretype) ==
    CASE wiretype = "bytes" -> "bytes"
      [] wiretype = "varint" -> "int64"
      [] wiretype = "fixed64" -> "fixed64"
      [] wiretype = "fixed32" -> "fixed32"
      [] OTHER -> ""

\* parseProtobufTag: <<>> for nil, else <<*field>>
parseProtobufTag(tag) ==
    IF tag = "" THEN <<>>
    ELSE LET matches == ProtobufSubmatch(Trim(tag, BackQuote))
         IN  IF matches = <<>> THEN <<>>
             ELSE LET parts == Split(matches[1], ",")
                      options == SubSeq(parts, 3, Len(parts))
                  IN  IF Len(parts) < 3 THEN <<>>
                      ELSE <<ProtoField(TagName(options, ""), WireType(parts[1]),
                                        Sscanf(parts[2]),
                                        \E i \in DOMAIN options : options[i] = "rep",
                                        \E i \in DOMAIN options : options[i] = "opt",
                                        "", "")>>

\* A slip in the tag path: the parsed field is renumbered with the running number
transformFieldRenumbered(f, num, enumLookup, typeParamsLookup) ==
    LET tag == parseProtobufTag(f.Tag)
        r == transformType(f.Type, enumLookup, typeParamsLookup)
        optional == f.Type.kind = "Pointer" /\ isBasicProtoType(r.protoType)
    IN  IF tag # <<>> THEN [field |-> [tag[1] EXCEPT !.Number = num], imports |-> <<>>]
        ELSE [field |-> ProtoField(toSnakeCase(f.Name), r.protoType, num, r.repeated,
                                   optional, r.mapKey, r.mapValue),
              imports |-> r.imports]

\* transformField returns (ProtoField, imports)
transformField(f, num, enumLookup, typeParamsLookup) ==
    LET tag == parseProtobufTag(f.Tag)
        r == transformType(f.Type, enumLookup, typeParamsLookup)
        optional == f.Type.kind = "Pointer" /\ isBasicProtoType(r.protoType)
    IN  IF tag # <<>> THEN [field |-> tag[1], imports |-> <<>>]
        ELSE [field |-> ProtoField(toSnakeCase(f.Name), r.protoType, num, r.repeated,
                                   optional, r.mapKey, r.mapValue),
              imports |-> r.imports]

\* the field loop of transformStruct, with its variables msg.Fields, imports, fieldNum
RECURSIVE StructFields(_, _, _, _, _, _, _)
StructFields(fields, includePrivate, enumLookup, typeParamsLookup, msgFields, imports, fieldNum) ==
    IF fields = <<>> THEN [fields |-> msgFields, imports |-> imports]
    ELSE LET f == Head(fields)
             tf == transformField(f, fieldNum, enumLookup, typeParamsLookup)
         IN  IF (~f.Exported /\ ~includePrivate) \/ f.Embedded \/ tf.field.Name = ""
             THEN StructFields(Tail(fields), includePrivate, enumLookup, typeParamsLookup,
                               msgFields, imports, fieldNum)
             ELSE StructFields(Tail(fields), includePrivate, enumLookup, typeParamsLookup,
                               Append(msgFields, tf.field), imports \o tf.imports,
                               fieldNum + 1)

transformStruct(s, enumLookup, includePrivate) ==
    IF TagValue(s.Tags, "go2proto") = "false" THEN ProtoEmpty
    ELSE IF Len(s.Name) > 0 /\ IsLower(CharAt(s.Name, 1)) THEN ProtoEmpty
    ELSE LET body == StructFields(s.Fields, includePrivate, enumLookup,
                                  Range(s.TypeParams), <<>>, <<>>, 1)
         IN  Proto("", "", NoOptions, Unique(body.imports), <<>>,
                   <<ProtoMessage(s.Name, body.fields)>>, <<>>)


\* ct.FoldMap(xs, ProtoMonoid, f)
FoldMap(xs, f(_)) == Concat([i \in DOMAIN xs |-> f(xs[i])])

(***************************************************************************)
(* pkg/transformer: constant group -> enum                                 *)
(***************************************************************************)
ProtoEnumValue(name, number) == [Name |-> name, Number |-> number]

ProtoEnum(name, values) == [Name |-> name, Values |-> values]

\* A slip in the threshold: a single value is enough to promote a group
buildEnumLookupOneValue(pkg) ==
    {pkg.Consts[i].TypeName : i \in {j \in DOMAIN pkg.Consts : Len(pkg.Consts[j].Values) >= 1}}
    \cup {pkg.Aliases[i].Name :
            i \in {j \in DOMAIN pkg.Aliases : TagValue(pkg.Aliases[j].Tags, "go2proto:enum") = "true"}}

\* buildEnumLookup: the keys of the map[string]bool it returns
buildEnumLookup(pkg) ==
    {pkg.Consts[i].TypeName : i \in {j \in DOMAIN pkg.Consts : Len(pkg.Consts[j].Values) >= 2}}
    \cup {pkg.Aliases[i].Name :
            i \in {j \in DOMAIN pkg.Aliases : TagValue(pkg.Aliases[j].Tags, "go2proto:enum") = "true"}}

transformEnums(pkg, enumLookup) ==
    LET kept == SelectSeq(pkg.Consts, LAMBDA cg : cg.TypeName \in enumLookup)
        enums == [i \in DOMAIN kept |->
                    ProtoEnum(kept[i].TypeName,
                              [j \in DOMAIN kept[i].Values |->
                                 ProtoEnumValue(toEnumValueName(kept[i].TypeName,
                                                                kept[i].Values[j].Name),
                                                kept[i].Values[j].Value)])]
    IN  Proto("", "", NoOptions, <<>>, enums, <<>>, <<>>)

(***************************************************************************)
(* pkg/transformer: interface -> service                                   *)
(***************************************************************************)
ProtoRPC(name, inputType, outputType) ==
    [Name |-> name, InputType |-> inputType, OutputType |-> outputType,
     ClientStreaming |-> FALSE, ServerStreaming |-> FALSE]

ProtoService(name, methods) == [Name |-> name, Methods |-> methods]

\* the field loop shared by generateRequestMessage ("arg") and
\* generateResponseMessage ("result")
EnvelopeFields(params, fallback) ==
    [i \in DOMAIN params |->
       LET r == transformType(params[i].Type, {}, {})
           name == IF params[i].Name = "" THEN fallback \o ToString(i) ELSE params[i].Name
       IN  ProtoField(toSnakeCase(name), r.protoType, i, r.repeated, FALSE,
                      IF r.isMap THEN r.mapKey ELSE "",
                      IF r.isMap THEN r.mapValue ELSE "")]

generateRequestMessage(methodName, params) ==
    ProtoMessage(methodName \o "Request", EnvelopeFields(params, "arg"))

generateResponseMessage(methodName, results) ==
    ProtoMessage(methodName \o "Response", EnvelopeFields(results, "result"))

\* A slip in the parameter filter: every parameter of named type is dropped
IsContextAnyNamed(p) == p.Type.kind = "Named"

IsContext(p) == p.Type.kind = "Named" /\ p.Type.Package = "context" /\ p.Type.Name = "Context"

IsError(p) == p.Type.kind = "Basic" /\ p.Type.Name = "error"

\* transformMethod returns (rpc, reqMsg, respMsg, imports); a nil message is <<>>
transformMethod(m, serviceName) ==
    LET params == SelectSeq(m.Params, LAMBDA p : ~IsContext(p))
        results == SelectSeq(m.Results, LAMBDA p : ~IsError(p))
        reuseIn == Len(params) = 1 /\ params[1].Type.kind = "Named"
        reqMsg == IF Len(params) >= 1 /\ ~reuseIn
                  THEN <<generateRequestMessage(m.Name, params)>> ELSE <<>>
        inputType == IF reuseIn THEN params[1].Type.Name
                     ELSE IF Len(params) >= 1 THEN reqMsg[1].Name
                     ELSE EmptyProto
        resultType == IF Len(results) = 1
                      THEN (IF results[1].Type.kind = "Pointer" THEN results[1].Type.Elem
                            ELSE results[1].Type)
                      ELSE InterfaceType
        reuseOut == Len(results) = 1 /\ resultType.kind = "Named"
        respMsg == IF Len(results) >= 1 /\ ~reuseOut
                   THEN <<generateResponseMessage(m.Name, results)>> ELSE <<>>
        outputType == IF reuseOut THEN resultType.Name
                      ELSE IF Len(results) >= 1 THEN respMsg[1].Name
                      ELSE EmptyProto
    IN  [rpc |-> ProtoRPC(m.Name, inputType, outputType),
         reqMsg |-> reqMsg, respMsg |-> respMsg,
         imports |-> (IF Len(params) = 0 THEN <<EmptyImport>> ELSE <<>>)
                     \o (IF Len(results) = 0 THEN <<EmptyImport>> ELSE <<>>)]

\* the method loop of transformInterface
RECURSIVE InterfaceMethods(_, _, _, _, _)
InterfaceMethods(methods, serviceName, rpcs, messages, imports) ==
    IF methods = <<>> THEN [rpcs |-> rpcs, messages |-> messages, imports |-> imports]
    ELSE LET tm == transformMethod(Head(methods), serviceName)
         IN  InterfaceMethods(Tail(methods), serviceName, Append(rpcs, tm.rpc),
                              messages \o tm.reqMsg \o tm.respMsg, imports \o tm.imports)

transformInterface(i) ==
    IF TagValue(i.Tags, "go2proto:service") # "true" /\ TagValue(i.Tags, "go2proto") # "service"
    THEN ProtoEmpty
    ELSE LET body == InterfaceMethods(i.Methods, i.Name, <<>>, <<>>, <<>>)
         IN  Proto("", "", NoOptions, Unique(body.imports), <<>>, body.messages,
                   <<ProtoService(i.Name, body.rpcs)>>)

(***************************************************************************)
(* pkg/transformer: package -> Proto                                       *)
(***************************************************************************)
TransformOptions(packageName, goPackage, includePrivate) ==
    [PackageName |-> packageName, GoPackage |-> goPackage, IncludePrivate |-> includePrivate]

transformPackage(pkg, opts) ==
    Concat(<<Proto("proto3",
                   IF opts.PackageName = "" THEN toProtoPackage(pkg.Path)
                   ELSE opts.PackageName,
                   [k \in {"go_package"} |->
                       IF opts.GoPackage = "" THEN pkg.Path ELSE opts.GoPackage],
                   <<>>, <<>>, <<>>, <<>>),
             transformEnums(pkg, buildEnumLookup(pkg)),
             FoldMap(pkg.Structs,
                     LAMBDA st : transformStruct(st, buildEnumLookup(pkg), opts.IncludePrivate)),
             FoldMap(pkg.Interfaces, transformInterface)>>)


(***************************************************************************)
(* Composition: fragments folded with ProtoMonoid                          *)
(***************************************************************************)
IdleMonoid ==
    /\ fa = ProtoEmpty /\ fb = ProtoEmpty /\ fc = ProtoEmpty
    /\ mres = [k \in {} |-> ProtoEmpty]

IdleStruct == sIn = <<>> /\ sPriv = FALSE /\ sLookup = {} /\ sOut = <<>>

IdleConsts ==
    /\ cPhase = "idle" /\ cBlocks = 0 /\ cSpecs = 0
    /\ currentType = "" /\ iotaValue = 0
    /\ groups = [k \in {} |-> <<>>] /\ cOrder = <<>>
    /\ cLast = <<>> /\ cAliases = <<>> /\ cConsts = <<>> /\ cEnums = <<>>

IdleTrans == tOpts = TransformOptions("", "", FALSE) /\ tPkgs = <<>> /\ tAcc = ProtoEmpty

IdleType ==
    /\ gType = BasicType("string") /\ gEnums = {} /\ gParams = {}
    /\ gRes = <<>> /\ gField = <<>>

IdleMethod == mIn = GoMethod("", <<>>, <<>>) /\ mOut = <<>>

IdleRun ==
    /\ rPkgs = <<>> /\ rOpts = TransformOptions("", "", FALSE)
    /\ rMappings = defaultTypeMappings /\ knownTypes = {} /\ rOut = <<>>

IdleRest == IdleType /\ IdleMethod /\ IdleRun

SyntaxSet == {"", "proto3", "proto2"}

ImportSet == {TimestampImport, AnyImport}

EnumSet == {ProtoEnum("Status", <<ProtoEnumValue("STATUS_A", 0)>>),
            ProtoEnum("Color", <<ProtoEnumValue("COLOR_RED", 0)>>)}

MessageSet == {ProtoMessage("User", <<>>), ProtoMessage("GetRequest", <<>>)}

ServiceSet == {ProtoService("UserService", <<>>), ProtoService("Admin", <<>>)}

GoPackageOption(path) == [k \in {"go_package"} |-> path]

\* Fragments: the scalar fields vary in the first family, the import list in the
\* second, the declaration lists in the next three; the last family has the
\* shapes transformEnums, transformStruct, transformInterface and
\* transformPackage return.
FragSet ==
    {Proto(s, po[1], po[2], <<>>, <<>>, <<>>, <<>>) :
        s \in SyntaxSet,
        po \in {<<"", NoOptions>>, <<"pa", NoOptions>>, <<"", GoPackageOption("pb")>>,
                <<"pa", GoPackageOption("pa")>>, <<"pb", GoPackageOption("pb")>>}}
    \cup {Proto("", "", NoOptions, i, <<>>, <<>>, <<>>) : i \in SeqsUpTo(ImportSet, MaxImports)}
    \cup {Proto("", "", NoOptions, <<>>, e, <<>>, <<>>) : e \in SeqsUpTo(EnumSet, MaxDecls)}
    \cup {Proto("", "", NoOptions, <<>>, <<>>, m, <<>>) : m \in SeqsUpTo(MessageSet, MaxDecls)}
    \cup {Proto("", "", NoOptions, <<>>, <<>>, <<>>, sv) : sv \in SeqsUpTo(ServiceSet, MaxDecls)}
    \cup {Proto("", "", NoOptions, <<TimestampImport>>, <<>>, <<ProtoMessage("User", <<>>)>>, <<>>),
          Proto("", "", NoOptions, <<EmptyImport>>, <<>>, <<ProtoMessage("GetRequest", <<>>)>>,
                <<ProtoService("UserService", <<>>)>>),
          Proto("proto3", "pa", GoPackageOption("pa"), <<TimestampImport, EmptyImport>>,
                <<ProtoEnum("Status", <<ProtoEnumValue("STATUS_A", 0)>>)>>,
                <<ProtoMessage("User", <<>>)>>, <<ProtoService("UserService", <<>>)>>)}

InitMonoid ==
    /\ fa \in FragSet /\ fb \in FragSet /\ fc \in FragSet
    /\ mres = [k \in {} |-> ProtoEmpty]
    /\ IdleStruct /\ IdleConsts /\ IdleTrans /\ IdleRest

Computed(label) == label \in DOMAIN mres

Record(label, value) ==
    /\ mres' = [k \in (DOMAIN mres) \cup {label} |-> IF k = label THEN value ELSE mres[k]]
    /\ UNCHANGED <<fa, fb, fc, structVars, constVars, transVars, typeVars,
                   methodVars, runVars>>

\* result = Append(Append(a, b), c)
FoldLeft ==
    /\ ~Computed("left")
    /\ Record("left", ProtoAppend(ProtoAppend(fa, fb), fc))

\* result = Append(a, Append(b, c))
FoldRight ==
    /\ Computed("left") /\ ~Computed("right")
    /\ Record("right", ProtoAppend(fa, ProtoAppend(fb, fc)))

\* Append(Empty(), a): the first step of every FoldMap and Concat
AppendToEmpty ==
    /\ Computed("right") /\ ~Computed("emptyLeft")
    /\ Record("emptyLeft", ProtoAppend(ProtoEmpty, fa))

\* Append(a, Empty()): what a skipped struct or interface contributes
AppendEmpty ==
    /\ Computed("emptyLeft") /\ ~Computed("emptyRight")
    /\ Record("emptyRight", ProtoAppend(fa, ProtoEmpty))

NextMonoid == FoldLeft \/ FoldRight \/ AppendToEmpty \/ AppendEmpty

SpecMonoid == InitMonoid /\ [][NextMonoid]_vars

\* C1: Append is associative: Append(Append(a, b), c) = Append(a, Append(b, c)),
\* field by field, for all fragments a, b, c.
C1_AppendAssociative ==
    (Computed("left") /\ Computed("right")) => mres["left"] = mres["right"]

\* C1 witness: both groupings were computed for fragments whose import lists
\* overlap (Unique removed something) around a fragment that sets the package.
C1_Witness ==
    /\ Computed("left") /\ Computed("right")
    /\ fb.Package # ""
    /\ Len(fa.Imports) = 2 /\ Len(fc.Imports) = 2
    /\ Len(mres["left"].Imports) < Len(fa.Imports) + Len(fc.Imports)

\* C2: Empty() is a two-sided identity of Append: Append(Empty(), x) = x and
\* Append(x, Empty()) = x for every fragment x.
C2_EmptyIsIdentity ==
    /\ Computed("emptyLeft") => mres["emptyLeft"] = fa
    /\ Computed("emptyRight") => mres["emptyRight"] = fa


(***************************************************************************)
(* Struct -> message: transformStruct applied to one struct                *)
(***************************************************************************)
RawTag(text) == BackQuote \o text \o BackQuote

JsonTag == RawTag("json:\"id\"")
FullTag == RawTag("protobuf:\"varint,5,opt,name=user_id\" json:\"uid\"")
FullTagRep == RawTag("protobuf:\"bytes,2,rep,name=chunks\"")
ShortTag == RawTag("protobuf:\"bytes,1\"")
NonNumericTag == RawTag("protobuf:\"varint,x,opt,name=count\"")
NamelessTag == RawTag("protobuf:\"varint,2,opt\"")
UnknownWireTag == RawTag("protobuf:\"zigzag32,3,opt,name=delta\"")

FullTags == {FullTag, FullTagRep}

MalformedTags == {ShortTag, NonNumericTag, NamelessTag, UnknownWireTag}

\* The fields a struct of the model is made of: plain exported fields, a field
\* with a json tag only, an unexported field, an embedded field, and one field
\* for each protobuf tag.
FieldSet ==
    {GoField("ID", BasicType("string"), "", FALSE),
     GoField("UserName", BasicType("string"), "", FALSE),
     GoField("CreatedAt", NamedType("time", "Time"), "", FALSE),
     GoField("Email", BasicType("string"), JsonTag, FALSE),
     GoField("secret", BasicType("string"), "", FALSE),
     GoField("Base", NamedType("", "Base"), "", TRUE)}
    \cup {GoField("Payload", SliceType(NamedType("time", "Time")), tag, FALSE) :
            tag \in FullTags \cup MalformedTags}

GoProtoFalse == [k \in {"go2proto"} |-> "false"]

\* the directive +go2proto (or +go2proto=true) in the documentation of a type
GoProtoTrue == [k \in {"go2proto"} |-> "true"]

StructSet ==
    {GoStruct("User", fs, NoTags, <<>>) : fs \in SeqsUpTo(FieldSet, MaxFields)}
    \cup {GoStruct(n, <<GoField("ID", BasicType("string"), "", FALSE)>>, t, <<>>) :
            n \in {"User", "user"}, t \in {NoTags, GoProtoFalse, GoProtoTrue}}

InitStruct ==
    /\ IdleMonoid /\ IdleStruct /\ IdleConsts /\ IdleTrans /\ IdleRest

\* one call of transformStruct, as made by transformPackage for each struct
TransformStruct ==
    /\ sIn = <<>>
    /\ \E s \in StructSet, priv \in BOOLEAN, lookup \in {{"Status"}} :
          /\ sIn' = <<s>>
          /\ sPriv' = priv
          /\ sLookup' = lookup
          /\ sOut' = <<transformStruct(s, lookup, priv)>>
    /\ UNCHANGED <<monoidVars, constVars, transVars, typeVars, methodVars, runVars>>

NextStruct == TransformStruct

SpecStruct == InitStruct /\ [][NextStruct]_vars

\* the message transformStruct emitted, if it emitted one
Emitted == sOut # <<>> /\ sOut[1].Messages # <<>>

EmittedFields == sOut[1].Messages[1].Fields

\* the source fields that pass the visibility filter of the field loop
Visible == SelectSeq(sIn[1].Fields, LAMBDA f : (f.Exported \/ sPriv) /\ ~f.Embedded)

\* C4: the field numbers of an emitted message with N fields are exactly 1..N in
\* declaration order, whatever fields were skipped and whatever wire tags the
\* fields carry.
C4_DenseFieldNumbers ==
    Emitted => \A i \in DOMAIN EmittedFields : EmittedFields[i].Number = i

\* the struct with every malformed wire tag removed
WithoutMalformedTags(s) ==
    [s EXCEPT !.Fields = [i \in DOMAIN s.Fields |->
        IF s.Fields[i].Tag \in MalformedTags THEN [s.Fields[i] EXCEPT !.Tag = ""]
        ELSE s.Fields[i]]]

\* C5: a malformed wire tag is ignored: the struct is transformed exactly as if
\* the field had no annotation (snake-cased Go name, inferred type, next
\* sequential number).
C5_MalformedTagIgnored ==
    sOut # <<>> => sOut[1] = transformStruct(WithoutMalformedTags(sIn[1]), sLookup, sPriv)


\* the visible fields that end up in the message: a field whose tag parses
\* to an empty name is dropped by the loop
EmittedSource == SelectSeq(Visible, LAMBDA f : f.Tag # NamelessTag)

\* what each complete annotation of the model says
AnnotatedField(tag) ==
    CASE tag = FullTag -> ProtoField("user_id", "int64", 5, FALSE, TRUE, "", "")
      [] tag = FullTagRep -> ProtoField("chunks", "bytes", 2, TRUE, FALSE, "", "")

\* C6: a field whose wire tag gives wiretype, field number and name= is emitted
\* with the number, name, type and repeated/optional flags of the annotation;
\* its Go name, its Go type (here []time.Time, which would infer a repeated
\* Timestamp and an import) and the running number are not used.
C6_CompleteTagWins ==
    Emitted =>
        /\ Len(EmittedFields) = Len(EmittedSource)
        /\ \A i \in DOMAIN EmittedSource :
              EmittedSource[i].Tag \in FullTags =>
                  EmittedFields[i] = AnnotatedField(EmittedSource[i].Tag)
        /\ (\A i \in DOMAIN EmittedSource : EmittedSource[i].Tag \in FullTags) =>
              sOut[1].Imports = <<>>

\* C6 witness: a message whose second field comes from a complete annotation
\* (number 5) after an inferred first field and before an inferred third one.
C6_Witness ==
    /\ Emitted
    /\ Len(EmittedFields) = 3
    /\ EmittedSource[1].Tag = ""
    /\ EmittedSource[2].Tag = FullTag
    /\ EmittedSource[3].Tag = ""
    /\ EmittedFields[2].Number = 5

\* C13: transformStruct yields no message for a struct with the exclude
\* directive, whatever its name; without it a struct with an exported name
\* yields a message, and a struct with an unexported name yields one exactly
\* when an include override is present (the go2proto directive set to true on
\* the struct, or opts.IncludePrivate).
C13_ExcludeAndVisibility ==
    sOut # <<>> =>
        LET s == sIn[1]
            excluded == TagValue(s.Tags, "go2proto") = "false"
            included == TagValue(s.Tags, "go2proto") = "true" \/ sPriv
            yielded == sOut[1].Messages # <<>>
        IN  /\ excluded => ~yielded
            /\ (~excluded /\ IsExported(s.Name)) => yielded
            /\ (~excluded /\ ~IsExported(s.Name)) => (yielded <=> included)


(***************************************************************************)
(* pkg/parser: constant blocks -> constant groups -> enums                 *)
(***************************************************************************)
\* vs.Type of a value spec: absent, an identifier, or a qualified name
NoTypeExpr == [kind |-> "nil"]
Ident(name) == [kind |-> "Ident", Name |-> name]
SelectorExpr(x, sel) == [kind |-> "Selector", X |-> x, Sel |-> sel]

ValueSpec(type, names) == [Type |-> type, Names |-> names]

\* A slip in the name loop: an unexported name is skipped without iotaValue++
RECURSIVE ScanNamesSkipUnexported(_, _, _)
ScanNamesSkipUnexported(names, values, iota) ==
    IF names = <<>> THEN [values |-> values, iota |-> iota]
    ELSE IF ~IsExported(Head(names)) THEN ScanNamesSkipUnexported(Tail(names), values, iota)
    ELSE ScanNamesSkipUnexported(Tail(names), Append(values, GoConstValue(Head(names), iota)),
                                 iota + 1)

\* the loop over vs.Names, with its variables group.Values and iotaValue
RECURSIVE ScanNames(_, _, _)
ScanNames(names, values, iota) ==
    IF names = <<>> THEN [values |-> values, iota |-> iota]
    ELSE IF ~IsExported(Head(names)) THEN ScanNames(Tail(names), values, iota + 1)
    ELSE ScanNames(Tail(names), Append(values, GoConstValue(Head(names), iota)), iota + 1)

\* the names of the next value spec: distinct identifiers, or the blank identifier
SpecNames(shape) ==
    [i \in DOMAIN shape |->
       IF shape[i] THEN "K" \o ToString(cSpecs + 1) \o CharAt(UpperAlpha, i) ELSE "_"]

TypeExprSet == {NoTypeExpr, Ident("Status"), Ident("Color"), SelectorExpr("time", "Duration")}

NameShapes == {<<TRUE>>, <<FALSE>>, <<FALSE, TRUE>>}

EnumDirective == [k \in {"go2proto:enum"} |-> "true"]

AliasChoices == {<<>>, <<GoAlias("Status", NoTags)>>, <<GoAlias("Status", EnumDirective)>>}

InitConsts ==
    /\ IdleMonoid /\ IdleStruct /\ IdleTrans /\ IdleRest
    /\ cPhase = "scan" /\ cBlocks = 0 /\ cSpecs = 0
    /\ currentType = "" /\ iotaValue = 0
    /\ groups = [k \in {} |-> <<>>] /\ cOrder = <<>>
    /\ cLast = <<>> /\ cAliases = <<>> /\ cConsts = <<>> /\ cEnums = <<>>

\* extractPackage reaches a const declaration and calls extractConsts
BeginBlock ==
    /\ cPhase = "scan"
    /\ cBlocks < MaxBlocks
    /\ cBlocks' = cBlocks + 1
    /\ currentType' = ""
    /\ iotaValue' = 0
    /\ cLast' = <<>>
    /\ UNCHANGED <<cPhase, cSpecs, groups, cOrder, cAliases, cConsts, cEnums,
                   monoidVars, structVars, transVars,
                   typeVars, methodVars, runVars>>

\* one turn of the loop over gd.Specs
ScanSpec ==
    /\ cPhase = "scan"
    /\ cBlocks >= 1
    /\ cSpecs < MaxSpecs
    /\ \E type \in TypeExprSet, shape \in NameShapes :
          LET spec == ValueSpec(type, SpecNames(shape))
              changed == type.kind = "Ident" /\ currentType # type.Name
              current == IF changed THEN type.Name ELSE currentType
              iota == IF changed THEN 0 ELSE iotaValue
              group == IF current \in DOMAIN groups THEN groups[current] ELSE <<>>
          IN  /\ cLast' = <<spec>>
              /\ currentType' = current
              /\ cOrder' = IF current # "" /\ current \notin DOMAIN groups
                           THEN Append(cOrder, current) ELSE cOrder
              /\ IF current = ""
                 THEN iotaValue' = iota /\ groups' = groups
                 ELSE LET scanned == ScanNames(spec.Names, group, iota)
                      IN  /\ iotaValue' = scanned.iota
                          /\ groups' = [k \in (DOMAIN groups) \cup {current} |->
                                          IF k = current THEN scanned.values ELSE groups[k]]
    /\ cSpecs' = cSpecs + 1
    /\ UNCHANGED <<cPhase, cBlocks, cAliases, cConsts, cEnums,
                   monoidVars, structVars, transVars,
                   typeVars, methodVars, runVars>>

Orderings(S) ==
    {p \in [1..Cardinality(S) -> S] : \A i, j \in 1..Cardinality(S) : p[i] = p[j] => i = j}

\* the end of extractPackage: the groups that have values are appended to
\* goPkg.Consts in the iteration order of the map, which Go leaves open; the
\* type aliases met among the declarations are in goPkg.Aliases
CollectConsts ==
    /\ cPhase = "scan"
    /\ cPhase' = "collected"
    /\ \E order \in Orderings({k \in DOMAIN groups : Len(groups[k]) > 0}) :
          cConsts' = [i \in DOMAIN order |-> GoConstGroup(order[i], groups[order[i]])]
    /\ \E aliases \in AliasChoices : cAliases' = aliases
    /\ UNCHANGED <<cBlocks, cSpecs, currentType, iotaValue, groups, cOrder, cLast, cEnums,
                   monoidVars, structVars, transVars,
                   typeVars, methodVars, runVars>>

ExtractedPackage == GoPackage("models", <<>>, <<>>, cAliases, cConsts)

\* transformPackage: enumLookup := buildEnumLookup(pkg); transformEnums(pkg, enumLookup)
TransformEnums ==
    /\ cPhase = "collected"
    /\ cPhase' = "done"
    /\ cEnums' = <<transformEnums(ExtractedPackage, buildEnumLookup(ExtractedPackage))>>
    /\ UNCHANGED <<cBlocks, cSpecs, currentType, iotaValue, groups, cOrder, cLast, cAliases,
                   cConsts, monoidVars, structVars, transVars,
                   typeVars, methodVars, runVars>>

NextConsts == BeginBlock \/ ScanSpec \/ CollectConsts \/ TransformEnums

SpecConsts == InitConsts /\ [][NextConsts]_vars


\* the values a spec records when it is scanned with the counter at base: one
\* for each exported name, numbered by the position of the name
RecordedValues(names, base) ==
    LET exported == SelectSeq([i \in DOMAIN names |-> i], LAMBDA i : IsExported(names[i]))
    IN  [j \in DOMAIN exported |-> GoConstValue(names[exported[j]], base + exported[j] - 1)]

EmittedEnums == cEnums[1].Enums

\* C9: every enum emitted by transformEnums has a first value numbered 0.
C9_FirstValueZero ==
    cPhase = "done" =>
        \A i \in DOMAIN EmittedEnums : EmittedEnums[i].Values[1].Number = 0

\* C17: the constant groups of the extracted package are in source declaration
\* order: the order in which their backing types first appear in the const
\* blocks, on every run.
C17_GroupsInDeclarationOrder ==
    cPhase \in {"collected", "done"} =>
        [i \in DOMAIN cConsts |-> cConsts[i].TypeName]
            = SelectSeq(cOrder, LAMBDA k : Len(groups[k]) > 0)

\* C10 as claimed: no emitted enum has fewer than two values, directive or not.
C10_AtLeastTwoValues ==
    cPhase = "done" =>
        \A i \in DOMAIN EmittedEnums : Len(EmittedEnums[i].Values) >= 2

HasEnumDirective(name) ==
    \E i \in DOMAIN cAliases :
        cAliases[i].Name = name /\ TagValue(cAliases[i].Tags, "go2proto:enum") = "true"

\* C10 amended: a constant group is emitted as an enum exactly when it has at
\* least two exported values or its backing type alias carries the go2proto:enum
\* directive; an emitted enum has at least two values unless the directive
\* forced it, and then at least one.
C10_TwoValuesOrDirective ==
    cPhase = "done" =>
        /\ [i \in DOMAIN EmittedEnums |-> EmittedEnums[i].Name]
             = [i \in DOMAIN SelectSeq(cConsts, LAMBDA cg :
                                  Len(cg.Values) >= 2 \/ HasEnumDirective(cg.TypeName)) |->
                  SelectSeq(cConsts, LAMBDA cg :
                      Len(cg.Values) >= 2 \/ HasEnumDirective(cg.TypeName))[i].TypeName]
        /\ \A i \in DOMAIN EmittedEnums :
              /\ Len(EmittedEnums[i].Values) >= 1
              /\ Len(EmittedEnums[i].Values) < 2 => HasEnumDirective(EmittedEnums[i].Name)

\* C10 witness: Status, with one exported value, is emitted because of the
\* directive, while Color, with one exported value and no directive, is not.
C10_Witness ==
    /\ cPhase = "done"
    /\ Len(cConsts) = 2
    /\ \A i \in DOMAIN cConsts : Len(cConsts[i].Values) = 1
    /\ Len(EmittedEnums) = 1
    /\ EmittedEnums[1].Name = "Status"
    /\ Len(EmittedEnums[1].Values) = 1


(***************************************************************************)
(* Transform: the fold of transformPackage over the packages               *)
(***************************************************************************)
ServiceDirective == [k \in {"go2proto:service"} |-> "true"]

ContextParam == GoParam("ctx", NamedType("context", "Context"))

ErrorResult == GoParam("", BasicType("error"))

UserService ==
    GoInterface("UserService",
        <<GoMethod("Get", <<ContextParam, GoParam("id", BasicType("string"))>>,
                   <<GoParam("", PointerType(NamedType("", "User"))), ErrorResult>>)>>,
        ServiceDirective)

AdminService ==
    GoInterface("AdminService",
        <<GoMethod("Get", <<GoParam("id", BasicType("string")), GoParam("force", BasicType("bool"))>>,
                   <<GoParam("", SliceType(NamedType("", "User"))), ErrorResult>>),
          GoMethod("Purge", <<ContextParam>>, <<ErrorResult>>)>>,
        ServiceDirective)

InterfaceChoices == {<<>>, <<UserService>>, <<AdminService>>, <<UserService, AdminService>>}

IdField == GoField("ID", BasicType("string"), "", FALSE)

StatusGroup == GoConstGroup("Status", <<GoConstValue("StatusUnknown", 0), GoConstValue("StatusActive", 1)>>)

\* the packages of the model: two import paths, each with its own struct names
PkgSet ==
    {GoPackage("github.com/acme/user-api", st, ifs, <<>>,
               IF st = <<>> THEN <<>> ELSE <<StatusGroup>>) :
        st \in {<<>>,
                <<GoStruct("User", <<IdField, GoField("Status", NamedType("", "Status"), "", FALSE)>>, NoTags, <<>>)>>,
                <<GoStruct("User", <<IdField>>, NoTags, <<>>),
                  GoStruct("GetRequest", <<IdField>>, NoTags, <<>>)>>},
        ifs \in InterfaceChoices}
    \cup
    {GoPackage("example.com/billing", st, ifs, <<>>, <<>>) :
        st \in {<<>>,
                <<GoStruct("Invoice", <<IdField>>, NoTags, <<>>)>>,
                <<GoStruct("Invoice", <<IdField>>, NoTags, <<>>),
                  GoStruct("ledger", <<IdField>>, NoTags, <<>>)>>},
        ifs \in InterfaceChoices}

\* the options of the model: the -package and -go_package flags set or not
OptionSet ==
    {TransformOptions(pn, gp, FALSE) : pn \in {"", "api"}, gp \in {"", "example.com/gen"}}

\* t.transformPackage for every package and every option set of the model
PackageProtos == [pkg \in PkgSet, opts \in OptionSet |-> transformPackage(pkg, opts)]

\* NewTransformer(opts) with the -package and -go_package flags set or not;
\* Transform starts FoldMap with result = ProtoMonoid.Empty()
InitTrans ==
    /\ IdleMonoid /\ IdleStruct /\ IdleConsts /\ IdleRest
    /\ tOpts \in OptionSet
    /\ tPkgs = <<>>
    /\ tAcc = ProtoEmpty

\* one turn of FoldMap's loop in Transform: result = Append(result, transformPackage(pkg))
FoldPackage ==
    /\ Len(tPkgs) < MaxPkgs
    /\ \E pkg \in PkgSet :
          /\ tPkgs' = Append(tPkgs, pkg)
          /\ tAcc' = ProtoAppend(tAcc, PackageProtos[pkg, tOpts])
    /\ UNCHANGED <<tOpts, monoidVars, structVars, constVars, typeVars, methodVars,
                   runVars>>

NextTrans == FoldPackage

SpecTrans == InitTrans /\ [][NextTrans]_vars

\* C3: every scalar field resolves first-non-empty-wins across the fold: the
\* result keeps the Syntax, the Package and the go_package option of the first
\* package; a later package never overrides them.
C3_FirstNonEmptyWins ==
    Len(tPkgs) >= 1 =>
        LET first == transformPackage(tPkgs[1], tOpts)
        IN  /\ tAcc.Syntax = first.Syntax
            /\ tAcc.Package = first.Package
            /\ tAcc.Options["go_package"] = first.Options["go_package"]

\* C7: the names of the messages of the Proto produced by Transform are
\* pairwise distinct.
C7_MessageNamesDistinct ==
    \A i, j \in DOMAIN tAcc.Messages :
        i # j => tAcc.Messages[i].Name # tAcc.Messages[j].Name


(***************************************************************************)
(* The resolver: transformType and transformField applied to one Go type   *)
(***************************************************************************)
MaxDepth == 2        \* constructors nested around a leaf of a Go type

\* the leaves of the type graph: basic types, named types (a message, an enum
\* candidate, a name used as a generic parameter, a well-known type) and the
\* shapes without a schema type: interface, struct, channel and func literals
TypeLeaves ==
    {BasicType("string"), BasicType("int"), BasicType("byte"), BasicType("uint8"),
     NamedType("", "User"), NamedType("", "Status"), NamedType("", "T"),
     NamedType("time", "Time"), InterfaceType, StructType,
     ChanType(BasicType("int")), FuncType}

KeyTypes == {BasicType("string"), BasicType("int")}

\* extractType: the types built from the leaves by at most d constructors
RECURSIVE TypesUpTo(_)
TypesUpTo(d) ==
    IF d = 0 THEN TypeLeaves
    ELSE LET inner == TypesUpTo(d - 1)
         IN  TypeLeaves
             \cup {PointerType(e) : e \in inner}
             \cup {SliceType(e) : e \in inner}
             \cup {ArrayType(e) : e \in inner}
             \cup {MapType(k, e) : k \in KeyTypes, e \in inner}

TypeSet == TypesUpTo(MaxDepth)

EnumLookups == {{}, {"Status"}, {"Status", "T"}}

TypeParamLookups == {{}, {"T"}}

InitType ==
    /\ IdleMonoid /\ IdleStruct /\ IdleConsts /\ IdleTrans /\ IdleMethod /\ IdleRun
    /\ gType \in TypeSet
    /\ gEnums \in EnumLookups
    /\ gParams \in TypeParamLookups
    /\ gRes = <<>> /\ gField = <<>>

\* the field transformStruct hands to transformField: no struct tag
ValueField == GoField("Value", gType, "", FALSE)

TransformType ==
    /\ gRes = <<>>
    /\ gRes' = <<transformType(gType, gEnums, gParams)>>
    /\ UNCHANGED <<gType, gEnums, gParams, gField, monoidVars, structVars, constVars,
                   transVars, methodVars, runVars>>

TransformField ==
    /\ gField = <<>>
    /\ gField' = <<transformField(ValueField, 1, gEnums, gParams)>>
    /\ UNCHANGED <<gType, gEnums, gParams, gRes, monoidVars, structVars, constVars,
                   transVars, methodVars, runVars>>

NextType == TransformType \/ TransformField

SpecType == InitType /\ [][NextType]_vars

\* the type under the pointers of a type
RECURSIVE Pointee(_)
Pointee(t) == IF t.kind = "Pointer" THEN Pointee(t.Elem) ELSE t

\* the scalar types of the schema language
ScalarTypes ==
    {"string", "bool", "bytes", "int32", "int64", "uint32", "uint64", "sint32",
     "sint64", "fixed32", "fixed64", "sfixed32", "sfixed64", "float", "double"}

\* C11: a field is marked optional exactly when its Go type is a pointer whose
\* pointee resolves to a single scalar: not repeated, not a map, not a message,
\* an enum or a well-known type; no non-pointer field is marked optional.
C11_OptionalIffPointerToScalar ==
    gField # <<>> =>
        LET pointee == transformType(Pointee(gType), gEnums, gParams)
        IN  gField[1].field.Optional
              <=> (/\ gType.kind = "Pointer"
                   /\ pointee.protoType \in ScalarTypes
                   /\ ~pointee.repeated
                   /\ ~pointee.isMap)


\* C12: a field whose type is a named type equal to one of the struct's generic
\* type parameters resolves to google.protobuf.Any with its import, never to
\* the bare parameter name, whatever the enum lookup holds.
C12_TypeParamResolvesToAny ==
    (gField # <<>> /\ gType.kind = "Named" /\ gType.Package = "" /\ gType.Name \in gParams)
        => /\ gField[1].field.Type = AnyProto
           /\ AnyImport \in Range(gField[1].imports)

\* C19: no emitted field that is a map (map key and value set, or a type string
\* of the form map<K, V>) is repeated.
C19_MapNeverRepeated ==
    gField # <<>> =>
        LET field == gField[1].field
        IN  ((field.MapKey # "" /\ field.MapValue # "") \/ HasPrefix(field.Type, "map<"))
                => ~field.Repeated

\* C20: a slice whose element is byte, at any position reached through
\* pointers, resolves to bytes, not repeated, with no imports; the field made
\* of it is a plain bytes field, never a repeated uint32.
C20_ByteSliceIsBytes ==
    Pointee(gType) = SliceType(BasicType("byte")) =>
        /\ gRes # <<>> => gRes[1] = Resolved("bytes", <<>>, FALSE, FALSE, "", "")
        /\ gField # <<>> =>
              /\ gField[1].field.Type = "bytes"
              /\ ~gField[1].field.Repeated
              /\ gField[1].imports = <<>>

\* C20 witness: a pointer to a byte slice has been resolved, alone and as a field
C20_Witness ==
    /\ gType = PointerType(SliceType(BasicType("byte")))
    /\ gRes # <<>> /\ gRes[1].protoType = "bytes"
    /\ gField # <<>> /\ gField[1].field.Type = "bytes"


(***************************************************************************)
(* Service methods: transformInterface applied to a one-method interface   *)
(***************************************************************************)
MaxParams == 3       \* parameters of a method
MaxResults == 2      \* results of a method

ParamSet ==
    {ContextParam,
     GoParam("userID", BasicType("string")),
     GoParam("", BasicType("int")),
     GoParam("user", NamedType("", "User")),
     GoParam("req", PointerType(NamedType("", "User"))),
     GoParam("since", NamedType("time", "Time"))}

ResultSet ==
    {ErrorResult,
     GoParam("", NamedType("", "User")),
     GoParam("", PointerType(NamedType("", "User"))),
     GoParam("", BasicType("int"))}

\* parameter lists: no parameter is declared twice
ParamLists ==
    {ps \in SeqsUpTo(ParamSet, MaxParams) :
        \A i, j \in DOMAIN ps : i # j => ps[i] # ps[j]}

MethodSet ==
    {GoMethod("GetUser", ps, rs) :
        ps \in ParamLists, rs \in SeqsUpTo(ResultSet, MaxResults)}

\* the interface the method is declared in
MethodService == GoInterface("UserService", <<mIn>>, ServiceDirective)

InitMethod ==
    /\ IdleMonoid /\ IdleStruct /\ IdleConsts /\ IdleTrans /\ IdleType /\ IdleRun
    /\ mIn \in MethodSet
    /\ mOut = <<>>

\* transformInterface on the interface: one turn of its method loop, which
\* calls transformMethod, and the fragment it returns
TransformInterface ==
    /\ mOut = <<>>
    /\ mOut' = <<[method |-> transformMethod(mIn, MethodService.Name),
                  fragment |-> transformInterface(MethodService)]>>
    /\ UNCHANGED <<mIn, monoidVars, structVars, constVars, transVars, typeVars, runVars>>

NextMethod == TransformInterface

SpecMethod == InitMethod /\ [][NextMethod]_vars

\* the parameters of the method that are not a context.Context
RemainingParams ==
    SelectSeq(mIn.Params, LAMBDA p : p.Type # NamedType("context", "Context"))

MessageNames(p) == {p.Messages[i].Name : i \in DOMAIN p.Messages}

\* C14: with no parameter left after the context parameters are dropped the
\* input type is google.protobuf.Empty and its import is in the fragment; with
\* one parameter left, of named type, the input type is that type's name and
\* no request message is made; in every other case <Method>Request is made,
\* with one field per remaining parameter, numbered 1..k in parameter order and
\* named (in snake case) from the parameter name or argN.
C14_RequestSynthesis ==
    mOut # <<>> =>
        LET params == RemainingParams
            method == mOut[1].method
            fragment == mOut[1].fragment
            request == mIn.Name \o "Request"
        IN  /\ fragment.Services[1].Methods = <<method.rpc>>
            /\ Len(params) = 0 =>
                  /\ method.rpc.InputType = EmptyProto
                  /\ method.reqMsg = <<>> /\ request \notin MessageNames(fragment)
                  /\ EmptyImport \in Range(fragment.Imports)
            /\ (Len(params) = 1 /\ params[1].Type.kind = "Named") =>
                  /\ method.rpc.InputType = params[1].Type.Name
                  /\ method.reqMsg = <<>> /\ request \notin MessageNames(fragment)
            /\ (Len(params) > 1 \/ (Len(params) = 1 /\ params[1].Type.kind # "Named")) =>
                  /\ method.rpc.InputType = request
                  /\ method.reqMsg # <<>> /\ method.reqMsg[1] = fragment.Messages[1]
                  /\ method.reqMsg[1].Name = request
                  /\ Len(method.reqMsg[1].Fields) = Len(params)
                  /\ \A i \in DOMAIN params :
                        /\ method.reqMsg[1].Fields[i].Number = i
                        /\ method.reqMsg[1].Fields[i].Name =
                              toSnakeCase(IF params[i].Name # "" THEN params[i].Name
                                          ELSE "arg" \o ToString(i))
                        /\ method.reqMsg[1].Fields[i].Type =
                              transformType(params[i].Type, {}, {}).protoType

\* C14 witness: GetUser(ctx, userID string, int) got a request message with the
\* fields user_id = 1 and arg2 = 2
C14_Witness ==
    /\ mOut # <<>>
    /\ mIn.Params = <<ContextParam, GoParam("userID", BasicType("string")),
                      GoParam("", BasicType("int"))>>
    /\ mOut[1].method.rpc.InputType = "GetUserRequest"
    /\ mOut[1].method.reqMsg[1].Fields[1].Name = "user_id"
    /\ mOut[1].method.reqMsg[1].Fields[2].Name = "arg2"
    /\ mOut[1].method.reqMsg[1].Fields[2].Number = 2

\* the results of the method without a trailing error result
WithoutTrailingError ==
    LET rs == mIn.Results
    IN  IF rs # <<>> /\ rs[Len(rs)].Type = BasicType("error")
        THEN SubSeq(rs, 1, Len(rs) - 1) ELSE rs

\* C15: only a trailing error result is removed, every other declared result
\* is kept in order; a single remaining result that is a named type or a
\* pointer to one is reused as the output type with no response message, and
\* otherwise <Method>Response is made with one field per remaining result,
\* numbered from 1.
C15_ResponseSynthesis ==
    mOut # <<>> =>
        LET results == WithoutTrailingError
            method == mOut[1].method
            response == mIn.Name \o "Response"
            target == IF Len(results) = 1 /\ results[1].Type.kind = "Pointer"
                      THEN results[1].Type.Elem
                      ELSE IF Len(results) = 1 THEN results[1].Type ELSE InterfaceType
        IN  /\ (Len(results) = 1 /\ target.kind = "Named") =>
                  /\ method.rpc.OutputType = target.Name
                  /\ method.respMsg = <<>>
            /\ (Len(results) > 1 \/ (Len(results) = 1 /\ target.kind # "Named")) =>
                  /\ method.rpc.OutputType = response
                  /\ method.respMsg # <<>>
                  /\ method.respMsg[1].Name = response
                  /\ Len(method.respMsg[1].Fields) = Len(results)
                  /\ \A i \in DOMAIN results : method.respMsg[1].Fields[i].Number = i


(***************************************************************************)
(* Order of the declarations in the folded Proto                           *)
(***************************************************************************)
Names(decls) == [i \in DOMAIN decls |-> decls[i].Name]

Occurrences(xs, x) == Cardinality({i \in DOMAIN xs : xs[i] = x})

\* the structs of a package that are not skipped, in declaration order
KeptStructs(pkg) ==
    SelectSeq(pkg.Structs,
              LAMBDA s : TagValue(s.Tags, "go2proto") # "false" /\ IsExported(s.Name))

\* the interfaces of a package that are services, in declaration order
ServiceInterfaces(pkg) ==
    SelectSeq(pkg.Interfaces,
              LAMBDA i : TagValue(i.Tags, "go2proto:service") = "true"
                             \/ TagValue(i.Tags, "go2proto") = "service")

\* C16: in every turn of Transform's fold, result = Append(a, b) with a the
\* Proto folded so far and b the Proto of the next package: the enums, messages
\* and services of the result are a's followed by b's, each in unchanged order,
\* and its imports hold every import of a and of b exactly once and nothing
\* else; b lists the struct-derived messages in struct declaration order, the
\* services in interface declaration order with their RPCs in method order,
\* and the enums in the order of the package's constant groups.
C16_DeclarationOrderKept ==
    [][tPkgs' # tPkgs =>
        LET pkg == tPkgs'[Len(tPkgs')]
            a == tAcc
            b == PackageProtos[pkg, tOpts]
            kept == KeptStructs(pkg)
            services == ServiceInterfaces(pkg)
        IN  /\ tAcc'.Enums = a.Enums \o b.Enums
            /\ tAcc'.Messages = a.Messages \o b.Messages
            /\ tAcc'.Services = a.Services \o b.Services
            /\ Range(tAcc'.Imports) = Range(a.Imports) \cup Range(b.Imports)
            /\ \A x \in Range(tAcc'.Imports) : Occurrences(tAcc'.Imports, x) = 1
            /\ Len(b.Messages) >= Len(kept)
            /\ Names(SubSeq(b.Messages, 1, Len(kept))) = Names(kept)
            /\ Names(b.Services) = Names(services)
            /\ \A i \in DOMAIN services :
                  Names(b.Services[i].Methods) = Names(services[i].Methods)
            /\ Names(b.Enums) =
                  [i \in DOMAIN pkg.Consts |-> pkg.Consts[i].TypeName]
    ]_vars

\* C16 witness: two packages were folded, each with two structs and two
\* services that both import google/protobuf/empty.proto
C16_Witness ==
    /\ Len(tPkgs) = 2
    /\ Names(tAcc.Services) = <<"UserService", "AdminService", "UserService", "AdminService">>
    /\ Names(tAcc.Enums) = <<"Status">>
    /\ tAcc.Imports = <<EmptyImport>>
    /\ tAcc.Messages[1].Name = "User" /\ tAcc.Messages[2].Name = "GetRequest"
    /\ \E i \in DOMAIN tAcc.Messages : tAcc.Messages[i].Name = "Invoice"


(***************************************************************************)
(* Runs: Transform called again and again on one package list              *)
(***************************************************************************)
MaxCalls == 2        \* calls of Transform on the package list

\* the packages given to the runs: those without interfaces and those with two
RunPkgSet == {pkg \in PkgSet : Len(pkg.Interfaces) # 1}

InitRun ==
    /\ IdleMonoid /\ IdleStruct /\ IdleConsts /\ IdleTrans /\ IdleType /\ IdleMethod
    /\ rPkgs \in SeqsUpTo(RunPkgSet, MaxPkgs)
    /\ rOpts \in OptionSet
    /\ rMappings = defaultTypeMappings
    /\ knownTypes = {}
    /\ rOut = <<>>

\* ct.FoldMap's loop over the packages: result = Append(result, transformPackage(pkg)).
\* Each turn's result is bound as a value before the next turn reads it.
RECURSIVE FoldPackages(_, _, _)
FoldPackages(result, pkgs, opts) ==
    IF pkgs = <<>> THEN result
    ELSE CHOOSE out \in {FoldPackages(next, Tail(pkgs), opts) :
                            next \in {ProtoAppend(result, b) :
                                        b \in {PackageProtos[Head(pkgs), opts]}}} : TRUE

\* A slip in Transform: the Proto of the last call is kept and folded into the next
TransformAccumulating(pkgs, opts) ==
    FoldPackages(IF rOut = <<>> THEN ProtoEmpty ELSE rOut[Len(rOut)].proto, pkgs, opts)

\* Transformer.Transform: ct.FoldMap(pkgs, ProtoMonoid, t.transformPackage)
Transform(pkgs, opts) == FoldPackages(ProtoEmpty, pkgs, opts)

\* trans.Transform(pkgs) on the Transformer of the earlier calls
TransformAgain ==
    /\ Len(rOut) < MaxCalls
    /\ rOut' = Append(rOut, [transformer |-> "same", proto |-> Transform(rPkgs, rOpts)])
    /\ UNCHANGED <<rPkgs, rOpts, rMappings, knownTypes, monoidVars, structVars,
                   constVars, transVars, typeVars, methodVars>>

\* NewTransformer(opts).Transform(pkgs): knownTypes is a new empty map
TransformFresh ==
    /\ Len(rOut) < MaxCalls
    /\ knownTypes' = {}
    /\ rOut' = Append(rOut, [transformer |-> "fresh", proto |-> Transform(rPkgs, rOpts)])
    /\ UNCHANGED <<rPkgs, rOpts, rMappings, monoidVars, structVars, constVars,
                   transVars, typeVars, methodVars>>

NextRun == TransformAgain \/ TransformFresh

SpecRun == InitRun /\ [][NextRun]_vars

\* two Protos that differ at most in the order of their imports
SameUpToImports(p, q) ==
    /\ [p EXCEPT !.Imports = <<>>] = [q EXCEPT !.Imports = <<>>]
    /\ Range(p.Imports) = Range(q.Imports)
    /\ Len(p.Imports) = Len(q.Imports)

RECURSIVE Core(_)
Core(t) == IF t.kind \in {"Pointer", "Slice", "Array"} THEN Core(t.Elem) ELSE t

\* the node kinds transformType has no schema type for
UnmappableKinds == {"Interface", "Struct", "Chan", "Func"}

\* C21: transformType returns a non-empty type name for every type node, and an
\* interface, struct, channel or func node, alone, under pointers, slices and
\* arrays, or as the value of a map field, resolves to google.protobuf.Any with
\* google/protobuf/any.proto among the returned imports.
C21_TotalWithPlaceholder ==
    gRes # <<>> =>
        /\ gRes[1].protoType # ""
        /\ Core(gType).kind \in UnmappableKinds =>
              /\ gRes[1].protoType = AnyProto
              /\ AnyImport \in Range(gRes[1].imports)
        /\ (Pointee(gType).kind = "Map"
               /\ Core(Pointee(gType).Value).kind \in UnmappableKinds) =>
              /\ gRes[1].mapValue = AnyProto
              /\ AnyImport \in Range(gRes[1].imports)

\* C21 witness: a slice of pointers to func values was resolved to the placeholder
C21_Witness ==
    /\ gType = SliceType(PointerType(FuncType))
    /\ gRes # <<>> /\ gRes[1].protoType = AnyProto /\ gRes[1].repeated


\* the imports the resolver returns with a type name
ImportsOf(typeName) ==
    IF typeName = TimestampProto THEN {TimestampImport}
    ELSE IF typeName = DurationProto THEN {DurationImport}
    ELSE IF typeName = AnyProto THEN {AnyImport}
    ELSE {}

\* the imports the type, map key and map value of a message's fields call for
NeededImports(msg) ==
    UNION {ImportsOf(msg.Fields[i].Type) \cup ImportsOf(msg.Fields[i].MapKey)
             \cup ImportsOf(msg.Fields[i].MapValue) : i \in DOMAIN msg.Fields}

\* C22: every import that the type, map key or map value of a field of an
\* emitted message calls for is among the imports of the fragment the message
\* comes in, for the messages made from structs and for the request and
\* response envelopes of a service method.
C22_ImportsComplete ==
    /\ sOut # <<>> =>
          \A i \in DOMAIN sOut[1].Messages :
              NeededImports(sOut[1].Messages[i]) \subseteq Range(sOut[1].Imports)
    /\ mOut # <<>> =>
          \A i \in DOMAIN mOut[1].fragment.Messages :
              NeededImports(mOut[1].fragment.Messages[i])
                  \subseteq Range(mOut[1].fragment.Imports)


\* C23: within every enum emitted by transformEnums the value numbers are
\* pairwise distinct, whatever the sequence of const blocks: the same backing
\* type in two blocks, or a block that returns to an earlier backing type.
C23_EnumNumbersDistinct ==
    cPhase = "done" =>
        \A e \in DOMAIN EmittedEnums :
            \A i, j \in DOMAIN EmittedEnums[e].Values :
                i # j => EmittedEnums[e].Values[i].Number # EmittedEnums[e].Values[j].Number

====
